---- MODULE Spec2Model ----
(***************************************************************************)
(* Model of the TikTok scraper servers of this repository.                 *)
(*                                                                         *)
(* Spec      src/tiktok-api-server.js: the semaphore-gated server.  Every  *)
(*           request takes a slot of pageSemaphore, makes sure the shared  *)
(*           globalBrowser exists, opens a page of its own, scrapes,       *)
(*           closes the page and releases the slot.                        *)
(* PoolSpec  src/simple-api-server.js over src/unnamed/part_000: the       *)
(*           "global pool" server, which keeps one browser and one page    *)
(*           in globalBrowser / globalPage and hands them to every request.*)
(* ShutdownSpec, PoolShutdownSpec                                          *)
(*           the requests of the two servers with closeGlobalBrowser()     *)
(*           called at any moment.                                         *)
(* DocSpec   one search request of tiktok-api-server.js followed through   *)
(*           the document it reads, up to the response.                    *)
(* ElementsSpec                                                            *)
(*           the extractions of tiktok-user-scraper.js and part_001, which *)
(*           pair element lists by index.                                  *)
(* ProfileSpec                                                             *)
(*           one profile request of tiktok-api-server.js followed through  *)
(*           its document, its page and its slot.                          *)
(*                                                                         *)
(* Node runs one callback at a time, so an action is the code that runs    *)
(* between two awaits: "XSettled" is the continuation that runs when the   *)
(* awaited promise X settles, up to and including the next call that is    *)
(* awaited.  pc[o] names the promise request o is waiting for.             *)
(***************************************************************************)
EXTENDS Integers, Sequences, FiniteSets, TLC

\* Bounds of the model.
NumOps == 3            \* requests that may be started
MaxCapacity == 2       \* largest semaphore capacity tried

Ops == 1..NumOps
Null == 0

VARIABLES
  maxConcurrent,       \* Semaphore.maxConcurrent
  currentConcurrent,   \* Semaphore.currentConcurrent
  queue,               \* Semaphore.queue: the requests whose resolve is queued
  globalBrowser,       \* module-level globalBrowser: Null or an engine
  globalPage,          \* module-level globalPage (pool server): Null or a page
  pc,                  \* per request: the promise it awaits
  query,               \* per request: the query string (pool server)
  browser,             \* per request: this.browser
  page,                \* per request: its page (const page / this.page)
  pageUrl,             \* per page: the query whose document the page shows
  outcome,             \* per request: how it left the method ("none" while running)
  resultDoc,           \* per request: the document its records were read from
  granted,             \* history: slots granted to the request
  released,            \* history: release() calls made by the request
  closeCalls,          \* history: page.close() calls made by the request
  closeThrew,          \* history: the page.close() that settled last rejected
  enqSeq,              \* history: requests in the order their resolve was queued
  grantSeq,            \* history: queued requests in the order they were resumed
  expired,             \* environment: per request in the system, its caller's
                       \* deadline passed while it was queued
  shutdownPc,          \* closeGlobalBrowser(): "idle", the promise it awaits, or
                       \* how it ended
  closedEngines,       \* history: engines on which close() has been called
  arrivedAtShutdown,   \* history: requests that had arrived when
                       \* closeGlobalBrowser() ended
  variant,             \* which server of the repository handles the request
  maxResults,          \* the maxResults the caller sent
  document,            \* the anchors a[href*="/@"] of the search document:
                       \* per anchor the handle its href carries ("" if none)
  content,             \* the profile selectors that match in the profile document
  elements,            \* the elements an evaluate callback reads: the lists the
                       \* index-pairing extractions pair, or what one anchor and
                       \* its container hold
  docPc,               \* the promise the single request awaits
  threwAt,             \* history: the call of the request that rejected
  response,            \* what the caller received
  previous,            \* history: how the request before, for the same document
                       \* and limit, ended
  probe                \* the readiness probe: per selector how its
                       \* waitForSelector settled, and what the probe reported

semVars == <<maxConcurrent, currentConcurrent, queue>>
histVars == <<granted, released, closeCalls, closeThrew, enqSeq, grantSeq>>
poolVars == <<globalPage, query, pageUrl, resultDoc>>
sdVars == <<shutdownPc, closedEngines, arrivedAtShutdown>>
docVars == <<variant, maxResults, document, content, elements, docPc, threwAt,
             response, previous, probe>>
vars == <<maxConcurrent, currentConcurrent, queue, globalBrowser, globalPage, pc,
          query, browser, page, pageUrl, outcome, resultDoc,
          granted, released, closeCalls, closeThrew, enqSeq, grantSeq, expired,
          shutdownPc, closedEngines, arrivedAtShutdown,
          variant, maxResults, document, content, elements, docPc, threwAt,
          response, previous, probe>>

----------------------------------------------------------------------------
(* State after the module has been loaded.  The capacity is whatever       *)
(* MAX_CONCURRENT_PAGES configures; it never changes afterwards.           *)

InitCommon ==
  /\ currentConcurrent = 0
  /\ queue = <<>>
  /\ globalBrowser = Null
  /\ globalPage = Null
  /\ pc = [o \in Ops |-> "idle"]
  /\ query = [o \in Ops |-> ""]
  /\ browser = [o \in Ops |-> Null]
  /\ page = [o \in Ops |-> Null]
  /\ pageUrl = [p \in Ops |-> ""]
  /\ outcome = [o \in Ops |-> "none"]
  /\ resultDoc = [o \in Ops |-> ""]
  /\ granted = [o \in Ops |-> 0]
  /\ released = [o \in Ops |-> 0]
  /\ closeCalls = [o \in Ops |-> 0]
  /\ closeThrew = FALSE
  /\ enqSeq = <<>>
  /\ grantSeq = <<>>
  /\ expired = [o \in Ops |-> FALSE]

\* closeGlobalBrowser() has not been called.
NoShutdown ==
  /\ shutdownPc = "idle"
  /\ closedEngines = {}
  /\ arrivedAtShutdown = 0

\* No request is followed through its document.
NoDocument ==
  /\ variant = "none"
  /\ maxResults = 0
  /\ document = <<>>
  /\ content = {}
  /\ elements = [usernames |-> <<>>, images |-> <<>>, names |-> <<>>]
  /\ docPc = "idle"
  /\ threwAt = "none"
  /\ response = [kind |-> "none"]
  /\ previous = [kind |-> "none"]
  /\ probe = [waits |-> <<>>, reported |-> "none"]

Init ==
  /\ maxConcurrent \in 1..MaxCapacity
  /\ InitCommon
  /\ NoShutdown
  /\ NoDocument

----------------------------------------------------------------------------
(* Semaphore                                                               *)

\* acquire: the test that grants a slot at once
HasFreeSlotOffByOne == currentConcurrent <= maxConcurrent
HasFreeSlot == currentConcurrent < maxConcurrent

\* release: the waiter that is resumed, and the queue that is left
DequeueKeepsWaiter(q) == [next |-> Head(q), rest |-> q]
DequeuePop(q) == [next |-> q[Len(q)], rest |-> SubSeq(q, 1, Len(q) - 1)]
Dequeue(q) == [next |-> Head(q), rest |-> Tail(q)]

\* release() called by request o, which then returns
SemReleaseThenReacquire(o) ==
  /\ released' = [released EXCEPT ![o] = @ + 1]
  /\ expired' = [expired EXCEPT ![o] = FALSE]
  /\ currentConcurrent' = currentConcurrent - 1
  /\ IF Len(queue) > 0
       THEN LET d == Dequeue(queue) IN
            /\ queue' = d.rest
            /\ pc' = [pc EXCEPT ![o] = "done", ![d.next] = "acquired"]
            /\ granted' = [granted EXCEPT ![d.next] = @ + 1]
            /\ grantSeq' = Append(grantSeq, d.next)
       ELSE /\ queue' = queue
            /\ pc' = [pc EXCEPT ![o] = "done"]
            /\ UNCHANGED <<granted, grantSeq>>
  /\ UNCHANGED <<maxConcurrent, enqSeq>>
SemRelease(o) ==
  /\ released' = [released EXCEPT ![o] = @ + 1]
  /\ expired' = [expired EXCEPT ![o] = FALSE]
  /\ IF Len(queue) > 0
       THEN LET d == Dequeue(queue) IN
            /\ queue' = d.rest
            /\ currentConcurrent' = (currentConcurrent - 1) + 1
            /\ pc' = [pc EXCEPT ![o] = "done", ![d.next] = "acquired"]
            /\ granted' = [granted EXCEPT ![d.next] = @ + 1]
            /\ grantSeq' = Append(grantSeq, d.next)
       ELSE /\ queue' = queue
            /\ currentConcurrent' = currentConcurrent - 1
            /\ pc' = [pc EXCEPT ![o] = "done"]
            /\ UNCHANGED <<granted, grantSeq>>
  /\ UNCHANGED <<maxConcurrent, enqSeq>>

----------------------------------------------------------------------------
(* scrapeUsers / scrapeUserProfile of the semaphore-gated server           *)

\* The request throws out of the method before its try block: nothing is
\* cleaned up.
ThrowBeforeTry(o, out) ==
  /\ pc' = [pc EXCEPT ![o] = "done"]
  /\ outcome' = [outcome EXCEPT ![o] = out]
  /\ expired' = [expired EXCEPT ![o] = FALSE]

\* The try block is left (return or catch): the finally block calls page.close().
EnterFinallySkipClose(o, out) ==
  /\ outcome' = [outcome EXCEPT ![o] = out]
  /\ IF out = "nocontent"
       THEN SemRelease(o) /\ UNCHANGED closeCalls
       ELSE /\ pc' = [pc EXCEPT ![o] = "closing"]
            /\ closeCalls' = [closeCalls EXCEPT ![o] = @ + 1]
            /\ UNCHANGED <<semVars, granted, released, enqSeq, grantSeq, expired>>
EnterFinally(o, out) ==
  /\ pc' = [pc EXCEPT ![o] = "closing"]
  /\ outcome' = [outcome EXCEPT ![o] = out]
  /\ closeCalls' = [closeCalls EXCEPT ![o] = @ + 1]
  /\ UNCHANGED <<semVars, granted, released, enqSeq, grantSeq, expired>>

\* Requests are numbered in the order in which they arrive.
Arrives(o) ==
  /\ pc[o] = "idle"
  /\ \A p \in Ops : p < o => pc[p] # "idle"

\* Entry of scrapeUsers(query) / scrapeUserProfile(username) up to the await
\* of pageSemaphore.acquire().
StartAcquiresFirst(o, q) ==
  /\ Arrives(o)
  /\ IF HasFreeSlot
       THEN /\ currentConcurrent' = currentConcurrent + 1
            /\ granted' = [granted EXCEPT ![o] = @ + 1]
            /\ IF q = ""
                 THEN ThrowBeforeTry(o, "invalid")
                 ELSE /\ pc' = [pc EXCEPT ![o] = "acquired"]
                      /\ UNCHANGED <<outcome, expired>>
            /\ UNCHANGED <<queue, enqSeq>>
       ELSE /\ queue' = Append(queue, o)
            /\ enqSeq' = Append(enqSeq, o)
            /\ pc' = [pc EXCEPT ![o] = "queued"]
            /\ UNCHANGED <<currentConcurrent, granted, outcome, expired>>
  /\ UNCHANGED <<maxConcurrent, released, closeCalls, closeThrew, grantSeq>>
  /\ UNCHANGED <<globalBrowser, browser, page, poolVars, sdVars, docVars>>
Start(o, q) ==
  /\ Arrives(o)
  /\ IF q = ""
       THEN /\ ThrowBeforeTry(o, "invalid")
            /\ UNCHANGED <<semVars, histVars>>
       ELSE /\ IF HasFreeSlot
                 THEN /\ currentConcurrent' = currentConcurrent + 1
                      /\ granted' = [granted EXCEPT ![o] = @ + 1]
                      /\ pc' = [pc EXCEPT ![o] = "acquired"]
                      /\ UNCHANGED <<queue, enqSeq>>
                 ELSE /\ queue' = Append(queue, o)
                      /\ enqSeq' = Append(enqSeq, o)
                      /\ pc' = [pc EXCEPT ![o] = "queued"]
                      /\ UNCHANGED <<currentConcurrent, granted>>
            /\ UNCHANGED <<maxConcurrent, released, closeCalls, closeThrew, grantSeq,
                           outcome, expired>>
  /\ UNCHANGED <<globalBrowser, browser, page, poolVars, sdVars, docVars>>

\* The acquire promise has resolved: ensureBrowser() is called.
Acquired(o) ==
  /\ pc[o] = "acquired"
  /\ IF globalBrowser # Null
       THEN /\ browser' = [browser EXCEPT ![o] = globalBrowser]
            /\ pc' = [pc EXCEPT ![o] = "ensured"]
       ELSE /\ pc' = [pc EXCEPT ![o] = "launching"]
            /\ UNCHANGED browser
  /\ UNCHANGED <<semVars, histVars, globalBrowser, page, outcome, expired, poolVars,
                 sdVars, docVars>>

\* puppeteer.launch() settles; an engine is named after the request that
\* launched it.
LaunchSettled(o, ok) ==
  /\ pc[o] = "launching"
  /\ IF ok
       THEN /\ browser' = [browser EXCEPT ![o] = o]
            /\ globalBrowser' = o
            /\ pc' = [pc EXCEPT ![o] = "ensured"]
            /\ UNCHANGED <<outcome, expired>>
       ELSE /\ ThrowBeforeTry(o, "launchFailed")
            /\ UNCHANGED <<browser, globalBrowser>>
  /\ UNCHANGED <<semVars, histVars, page, poolVars, sdVars, docVars>>

\* ensureBrowser() has returned: this.browser.newPage() is called.
EnsureBrowserReturned(o) ==
  /\ pc[o] = "ensured"
  /\ pc' = [pc EXCEPT ![o] = "newPage"]
  /\ UNCHANGED <<semVars, histVars, globalBrowser, browser, page, outcome, expired,
                 poolVars, sdVars, docVars>>

\* newPage() settles; a page is named after the request that opened it.  The
\* try block is entered and setViewport is called.
NewPageSettled(o, ok) ==
  /\ pc[o] = "newPage"
  /\ IF ok
       THEN /\ page' = [page EXCEPT ![o] = o]
            /\ pc' = [pc EXCEPT ![o] = "setViewport"]
            /\ UNCHANGED <<outcome, expired>>
       ELSE /\ ThrowBeforeTry(o, "newPageFailed")
            /\ UNCHANGED page
  /\ UNCHANGED <<semVars, histVars, globalBrowser, browser, poolVars,
                 sdVars, docVars>>

\* A call inside the try block settles: the next call is made, or the
\* rejection is caught (catch logs and returns [] / null).
TryStep(o, from, to, ok) ==
  /\ pc[o] = from
  /\ IF ok
       THEN /\ pc' = [pc EXCEPT ![o] = to]
            /\ UNCHANGED <<outcome, semVars, histVars, expired>>
       ELSE /\ EnterFinally(o, "caught")
            /\ UNCHANGED closeThrew
  /\ UNCHANGED <<globalBrowser, browser, page, poolVars, sdVars, docVars>>

SetViewportSettled(o, ok) == TryStep(o, "setViewport", "setUserAgent", ok)
SetUserAgentSettled(o, ok) == TryStep(o, "setUserAgent", "goto", ok)
GotoSettledSkipsProbe(o, ok) == TryStep(o, "goto", "evaluate", ok)
GotoSettled(o, ok) == TryStep(o, "goto", "probe", ok)

\* waitForAnySelector never rejects: whatever it reports, checkElementsExist
\* is called next.
ProbeSettled(o, hasContent) ==
  /\ pc[o] = "probe"
  /\ hasContent \in BOOLEAN
  /\ pc' = [pc EXCEPT ![o] = "check"]
  /\ UNCHANGED <<semVars, histVars, globalBrowser, browser, page, outcome, expired,
                 poolVars, sdVars, docVars>>

\* checkElementsExist settles: no content returns [] / null from the try
\* block, content calls page.evaluate.
CheckSettled(o, ok, hasLinks) ==
  /\ pc[o] = "check"
  /\ IF ~ok
       THEN EnterFinally(o, "caught")
       ELSE IF ~hasLinks
         THEN EnterFinally(o, "nocontent")
         ELSE /\ pc' = [pc EXCEPT ![o] = "evaluate"]
              /\ UNCHANGED <<outcome, semVars, granted, released, closeCalls, enqSeq,
                             grantSeq, expired>>
  /\ UNCHANGED <<closeThrew, globalBrowser, browser, page, poolVars,
                 sdVars, docVars>>

\* page.evaluate settles: the records are returned, or the rejection caught.
EvaluateSettled(o, ok) ==
  /\ pc[o] = "evaluate"
  /\ IF ok
       THEN EnterFinally(o, "success")
       ELSE EnterFinally(o, "caught")
  /\ UNCHANGED <<closeThrew, globalBrowser, browser, page, poolVars,
                 sdVars, docVars>>

\* page.close() settles: a rejection is ignored, the inner finally releases
\* the slot and the method returns.
PageCloseSettledNoInnerFinally(o, ok) ==
  /\ pc[o] = "closing"
  /\ closeThrew' = ~ok
  /\ IF ok
       THEN SemRelease(o)
       ELSE /\ pc' = [pc EXCEPT ![o] = "done"]
            /\ expired' = [expired EXCEPT ![o] = FALSE]
            /\ UNCHANGED <<semVars, granted, released, enqSeq, grantSeq>>
  /\ UNCHANGED <<closeCalls, globalBrowser, browser, page, outcome, poolVars,
                 sdVars, docVars>>
PageCloseSettled(o, ok) ==
  /\ pc[o] = "closing"
  /\ closeThrew' = ~ok
  /\ SemRelease(o)
  /\ UNCHANGED <<closeCalls, globalBrowser, browser, page, outcome, poolVars,
                 sdVars, docVars>>

\* The caller's deadline passes while the request's resolve is queued.  The
\* code sets no timer and the acquire promise has no reject path: nothing in
\* the program reacts.
DeadlineExpires(o) ==
  /\ pc[o] = "queued"
  /\ ~expired[o]
  /\ expired' = [expired EXCEPT ![o] = TRUE]
  /\ UNCHANGED <<semVars, histVars, globalBrowser, pc, browser, page, outcome, poolVars,
                 sdVars, docVars>>

\* The steps a started request takes by itself.
OpStep(o) ==
  \/ Acquired(o)
  \/ \E ok \in BOOLEAN : LaunchSettled(o, ok)
  \/ EnsureBrowserReturned(o)
  \/ \E ok \in BOOLEAN : NewPageSettled(o, ok)
  \/ \E ok \in BOOLEAN : SetViewportSettled(o, ok)
  \/ \E ok \in BOOLEAN : SetUserAgentSettled(o, ok)
  \/ \E ok \in BOOLEAN : GotoSettled(o, ok)
  \/ \E hasContent \in BOOLEAN : ProbeSettled(o, hasContent)
  \/ \E ok \in BOOLEAN, hasLinks \in BOOLEAN : CheckSettled(o, ok, hasLinks)
  \/ \E ok \in BOOLEAN : EvaluateSettled(o, ok)
  \/ \E ok \in BOOLEAN : PageCloseSettled(o, ok)

Next ==
  \/ \E o \in Ops, q \in {"", "a"} : Start(o, q)
  \/ \E o \in Ops : OpStep(o)
  \/ \E o \in Ops : DeadlineExpires(o)

Spec == Init /\ [][Next]_vars

----------------------------------------------------------------------------
(* closeGlobalBrowser of the semaphore-gated server, called while requests *)
(* come and go.                                                            *)

NumShutdownOps == 2    \* requests that may be started around a shutdown
ShutdownOps == 1..NumShutdownOps

opVars == <<semVars, histVars, pc, browser, page, outcome, expired>>
Arrived == Cardinality({o \in Ops : pc[o] # "idle"})

\* closeGlobalBrowser() up to its await: with an engine it calls
\* globalBrowser.close(), without one it returns at once.
CloseGlobalBrowser ==
  /\ shutdownPc = "idle"
  /\ IF globalBrowser # Null
       THEN /\ shutdownPc' = "closing"
            /\ closedEngines' = closedEngines \cup {globalBrowser}
            /\ UNCHANGED arrivedAtShutdown
       ELSE /\ shutdownPc' = "noop"
            /\ arrivedAtShutdown' = Arrived
            /\ UNCHANGED closedEngines
  /\ UNCHANGED <<opVars, globalBrowser, poolVars, docVars>>

\* globalBrowser.close() settles: a rejection is caught and logged, the
\* finally block sets globalBrowser to null.
BrowserCloseSettledKeepsGlobal(ok) ==
  /\ shutdownPc = "closing"
  /\ shutdownPc' = IF ok THEN "closed" ELSE "closeFailed"
  /\ arrivedAtShutdown' = Arrived
  /\ UNCHANGED <<opVars, globalBrowser, closedEngines, poolVars, docVars>>
BrowserCloseSettled(ok) ==
  /\ shutdownPc = "closing"
  /\ globalBrowser' = Null
  /\ shutdownPc' = IF ok THEN "closed" ELSE "closeFailed"
  /\ arrivedAtShutdown' = Arrived
  /\ UNCHANGED <<opVars, closedEngines, poolVars, docVars>>

ShutdownNext ==
  \/ \E o \in ShutdownOps, q \in {"", "a"} : Start(o, q)
  \/ \E o \in ShutdownOps : OpStep(o)
  \/ CloseGlobalBrowser
  \/ \E ok \in BOOLEAN : BrowserCloseSettled(ok)

ShutdownSpec == Init /\ [][ShutdownNext]_vars

----------------------------------------------------------------------------
(* The "global pool" server: scrapeUsers of simple-api-server.js over the  *)
(* TikTokUserScraper of part_000 (init, scrapeUsers, close).               *)

Queries == {"", "a", "b"}
MaxResultsInputs == {0, 5, 21}

\* The wrapper leaves its try block: finally awaits scraper.close().
PoolFinally(o, out) ==
  /\ pc' = [pc EXCEPT ![o] = "p_close"]
  /\ outcome' = [outcome EXCEPT ![o] = out]

\* scrapeUsers(query, maxResults) of the server: validation, new scraper,
\* init() up to its first await.
PoolStartAlwaysLaunches(o, q, m) ==
  /\ Arrives(o)
  /\ IF q = "" \/ m < 1 \/ m > 20
       THEN /\ pc' = [pc EXCEPT ![o] = "done"]
            /\ outcome' = [outcome EXCEPT ![o] = "invalid"]
            /\ UNCHANGED query
       ELSE /\ query' = [query EXCEPT ![o] = q]
            /\ pc' = [pc EXCEPT ![o] = "p_launching"]
            /\ UNCHANGED outcome
  /\ UNCHANGED <<semVars, histVars, globalBrowser, globalPage, browser, page,
                 pageUrl, resultDoc, expired, sdVars, docVars>>
PoolStart(o, q, m) ==
  /\ Arrives(o)
  /\ IF q = "" \/ m < 1 \/ m > 20
       THEN /\ pc' = [pc EXCEPT ![o] = "done"]
            /\ outcome' = [outcome EXCEPT ![o] = "invalid"]
            /\ UNCHANGED <<query, browser, page>>
       ELSE /\ query' = [query EXCEPT ![o] = q]
            /\ UNCHANGED outcome
            /\ IF globalBrowser # Null
                 THEN /\ browser' = [browser EXCEPT ![o] = globalBrowser]
                      /\ page' = [page EXCEPT ![o] = globalPage]
                      /\ pc' = [pc EXCEPT ![o] = "p_inited"]
                 ELSE /\ pc' = [pc EXCEPT ![o] = "p_launching"]
                      /\ UNCHANGED <<browser, page>>
  /\ UNCHANGED <<semVars, histVars, globalBrowser, globalPage, pageUrl, resultDoc,
                 expired, sdVars, docVars>>

\* init: puppeteer.launch() settles, newPage() is called.
PoolLaunchSettled(o, ok) ==
  /\ pc[o] = "p_launching"
  /\ IF ok
       THEN /\ browser' = [browser EXCEPT ![o] = o]
            /\ pc' = [pc EXCEPT ![o] = "p_newPage"]
            /\ UNCHANGED outcome
       ELSE /\ PoolFinally(o, "threw")
            /\ UNCHANGED browser
  /\ UNCHANGED <<semVars, histVars, globalBrowser, page, expired, poolVars,
                 sdVars, docVars>>

\* init: newPage() settles, setUserAgent is called.
PoolNewPageSettled(o, ok) ==
  /\ pc[o] = "p_newPage"
  /\ IF ok
       THEN /\ page' = [page EXCEPT ![o] = o]
            /\ pc' = [pc EXCEPT ![o] = "p_setUserAgent"]
            /\ UNCHANGED outcome
       ELSE /\ PoolFinally(o, "threw")
            /\ UNCHANGED page
  /\ UNCHANGED <<semVars, histVars, globalBrowser, browser, expired, poolVars,
                 sdVars, docVars>>

\* init: setUserAgent settles, the browser and the page are stored in the
\* global pool.
PoolSetUserAgentSettled(o, ok) ==
  /\ pc[o] = "p_setUserAgent"
  /\ IF ok
       THEN /\ globalBrowser' = browser[o]
            /\ globalPage' = page[o]
            /\ pc' = [pc EXCEPT ![o] = "p_inited"]
            /\ UNCHANGED outcome
       ELSE /\ PoolFinally(o, "threw")
            /\ UNCHANGED <<globalBrowser, globalPage>>
  /\ UNCHANGED <<semVars, histVars, browser, page, query, pageUrl, resultDoc, expired,
                 sdVars, docVars>>

\* init() has returned: scraper.scrapeUsers calls this.page.goto(url).
PoolInitReturned(o) ==
  /\ pc[o] = "p_inited"
  /\ pc' = [pc EXCEPT ![o] = "p_goto"]
  /\ UNCHANGED <<semVars, histVars, globalBrowser, browser, page, outcome, expired,
                 poolVars, sdVars, docVars>>

\* goto settles: the page now shows the document of the request's query.
PoolGotoSettled(o, ok) ==
  /\ pc[o] = "p_goto"
  /\ IF ok
       THEN /\ pageUrl' = [pageUrl EXCEPT ![page[o]] = query[o]]
            /\ pc' = [pc EXCEPT ![o] = "p_wait1"]
            /\ UNCHANGED outcome
       ELSE /\ PoolFinally(o, "caught")
            /\ UNCHANGED pageUrl
  /\ UNCHANGED <<semVars, histVars, globalBrowser, globalPage, browser, page, query,
                 resultDoc, expired, sdVars, docVars>>

\* The first waitForSelector settles: found goes on to page.evaluate, a
\* timeout sleeps two seconds.
PoolWaitSettled(o, found) ==
  /\ pc[o] = "p_wait1"
  /\ pc' = [pc EXCEPT ![o] = IF found THEN "p_evaluate" ELSE "p_sleep"]
  /\ UNCHANGED <<semVars, histVars, globalBrowser, browser, page, outcome, expired,
                 poolVars, sdVars, docVars>>

\* The sleep is over: waitForSelector is tried again.
PoolSleepDone(o) ==
  /\ pc[o] = "p_sleep"
  /\ pc' = [pc EXCEPT ![o] = "p_wait2"]
  /\ UNCHANGED <<semVars, histVars, globalBrowser, browser, page, outcome, expired,
                 poolVars, sdVars, docVars>>

\* The second waitForSelector settles: page.evaluate is called either way.
PoolRetrySettled(o, found) ==
  /\ pc[o] = "p_wait2"
  /\ found \in BOOLEAN
  /\ pc' = [pc EXCEPT ![o] = "p_evaluate"]
  /\ UNCHANGED <<semVars, histVars, globalBrowser, browser, page, outcome, expired,
                 poolVars, sdVars, docVars>>

\* page.evaluate settles: the records come from the document the page shows
\* at that moment.
PoolEvaluateSettled(o, ok) ==
  /\ pc[o] = "p_evaluate"
  /\ IF ok
       THEN /\ resultDoc' = [resultDoc EXCEPT ![o] = pageUrl[page[o]]]
            /\ PoolFinally(o, "success")
       ELSE /\ PoolFinally(o, "caught")
            /\ UNCHANGED resultDoc
  /\ UNCHANGED <<semVars, histVars, globalBrowser, globalPage, browser, page, query,
                 pageUrl, expired, sdVars, docVars>>

\* scraper.close() has returned (with useGlobalPool it closes nothing): the
\* wrapper returns or rethrows.
PoolCloseReturned(o) ==
  /\ pc[o] = "p_close"
  /\ pc' = [pc EXCEPT ![o] = "done"]
  /\ UNCHANGED <<semVars, histVars, globalBrowser, browser, page, outcome, expired,
                 poolVars, sdVars, docVars>>

PoolInit ==
  /\ maxConcurrent = 1
  /\ InitCommon
  /\ NoShutdown
  /\ NoDocument

PoolNext ==
  \/ \E o \in Ops, q \in Queries, m \in MaxResultsInputs : PoolStart(o, q, m)
  \/ \E o \in Ops, ok \in BOOLEAN : PoolLaunchSettled(o, ok)
  \/ \E o \in Ops, ok \in BOOLEAN : PoolNewPageSettled(o, ok)
  \/ \E o \in Ops, ok \in BOOLEAN : PoolSetUserAgentSettled(o, ok)
  \/ \E o \in Ops : PoolInitReturned(o)
  \/ \E o \in Ops, ok \in BOOLEAN : PoolGotoSettled(o, ok)
  \/ \E o \in Ops, found \in BOOLEAN : PoolWaitSettled(o, found)
  \/ \E o \in Ops : PoolSleepDone(o)
  \/ \E o \in Ops, found \in BOOLEAN : PoolRetrySettled(o, found)
  \/ \E o \in Ops, ok \in BOOLEAN : PoolEvaluateSettled(o, ok)
  \/ \E o \in Ops : PoolCloseReturned(o)

PoolSpec == PoolInit /\ [][PoolNext]_vars

----------------------------------------------------------------------------
(* The static closeGlobalBrowser of the pool scraper (part_000), called    *)
(* while requests come and go.                                             *)

\* closeGlobalBrowser() up to its await.
PoolCloseGlobalBrowser ==
  /\ shutdownPc = "idle"
  /\ IF globalBrowser # Null
       THEN /\ shutdownPc' = "closing"
            /\ closedEngines' = closedEngines \cup {globalBrowser}
            /\ UNCHANGED arrivedAtShutdown
       ELSE /\ shutdownPc' = "noop"
            /\ arrivedAtShutdown' = Arrived
            /\ UNCHANGED closedEngines
  /\ UNCHANGED <<opVars, globalBrowser, poolVars, docVars>>

\* globalBrowser.close() settles.  There is no try block around it: the two
\* globals are reset only after a close() that resolved, a rejection leaves
\* the method at the await.
PoolBrowserCloseSettled(ok) ==
  /\ shutdownPc = "closing"
  /\ IF ok
       THEN /\ globalBrowser' = Null
            /\ globalPage' = Null
            /\ shutdownPc' = "closed"
       ELSE /\ shutdownPc' = "threw"
            /\ UNCHANGED <<globalBrowser, globalPage>>
  /\ arrivedAtShutdown' = Arrived
  /\ UNCHANGED <<opVars, closedEngines, query, pageUrl, resultDoc, docVars>>

\* The steps a started request of the pool server takes by itself.
PoolOpStep(o) ==
  \/ \E ok \in BOOLEAN : PoolLaunchSettled(o, ok)
  \/ \E ok \in BOOLEAN : PoolNewPageSettled(o, ok)
  \/ \E ok \in BOOLEAN : PoolSetUserAgentSettled(o, ok)
  \/ PoolInitReturned(o)
  \/ \E ok \in BOOLEAN : PoolGotoSettled(o, ok)
  \/ \E found \in BOOLEAN : PoolWaitSettled(o, found)
  \/ PoolSleepDone(o)
  \/ \E found \in BOOLEAN : PoolRetrySettled(o, found)
  \/ \E ok \in BOOLEAN : PoolEvaluateSettled(o, ok)
  \/ PoolCloseReturned(o)

PoolShutdownNext ==
  \/ \E o \in ShutdownOps, q \in Queries, m \in MaxResultsInputs : PoolStart(o, q, m)
  \/ \E o \in ShutdownOps : PoolOpStep(o)
  \/ PoolCloseGlobalBrowser
  \/ \E ok \in BOOLEAN : PoolBrowserCloseSettled(ok)

PoolShutdownSpec == PoolInit /\ [][PoolShutdownNext]_vars

----------------------------------------------------------------------------
(* One search request of tiktok-api-server.js followed through its         *)
(* document: route, scrapeUsersWrapper, scrapeUsers, page.evaluate.  The   *)
(* file holds two copies of the server, "first" (lines 1-545) and "second" *)
(* (lines 547-1202).                                                       *)

MaxAnchors == 5        \* anchors a[href*="/@"] in a search document
Handles == {"a", "b", "c", "d"}
Hrefs == Handles \cup {""}
MaxResultsSent == {-1, 0, 3, 21}

\* What the request was sent with and what was answered before it, and the
\* state of the server's gate and engine, which the steps on the document
\* leave alone.
docInputs == <<variant, maxResults, document, content, elements, previous, probe>>
serverVars == <<maxConcurrent, currentConcurrent, queue, globalBrowser, pc, browser,
                page, outcome, histVars, expired, poolVars, sdVars>>

RECURSIVE SeqsUpTo(_, _)
SeqsUpTo(S, n) ==
  IF n = 0 THEN {<<>>}
  ELSE LET shorter == SeqsUpTo(S, n - 1) IN
       shorter \cup {Append(q, x) : q \in {r \in shorter : Len(r) = n - 1}, x \in S}

\* The route: parseInt(maxResults) || 5, for a maxResults that is a number.
ParseMaxResults(m) == IF m = 0 THEN 5 ELSE m

\* Array.prototype.slice(0, end)
Slice(arr, end) ==
  LET last == IF end < 0
                THEN (IF Len(arr) + end < 0 THEN 0 ELSE Len(arr) + end)
                ELSE (IF end > Len(arr) THEN Len(arr) ELSE end)
  IN SubSeq(arr, 1, last)

\* links.forEach: one record per anchor whose href matches /\/@([^\/\?]+)/
RECURSIVE Results(_)
Results(links) ==
  IF links = <<>> THEN <<>>
  ELSE IF Head(links) # ""
    THEN <<[username |-> Head(links)]>> \o Results(Tail(links))
    ELSE Results(Tail(links))

\* The loop "Remove duplicates based on username", from record i on.
RECURSIVE UniqueLoop(_, _, _, _, _)
UniqueLoop(results, max, i, seenUsernames, uniqueResults) ==
  IF i > Len(results) THEN uniqueResults
  ELSE IF results[i].username # "" /\ results[i].username \notin seenUsernames
    THEN LET pushed == Append(uniqueResults, results[i]) IN
         IF Len(pushed) >= max
           THEN pushed
           ELSE UniqueLoop(results, max, i + 1,
                           seenUsernames \cup {results[i].username}, pushed)
    ELSE UniqueLoop(results, max, i + 1, seenUsernames, uniqueResults)

UniqueResultsSeenKept(results, max) ==
  UniqueLoop(results, max, 1,
             IF previous.kind = "kept" /\ "data" \in DOMAIN previous.response
               THEN {previous.response.data[i].username :
                       i \in DOMAIN previous.response.data}
               ELSE {},
             <<>>)
UniqueResultsNoSeen(results, max) == results
UniqueResults(results, max) == UniqueLoop(results, max, 1, {}, <<>>)

\* What scrapeUsers returns when page.evaluate resolves.
ExtractUsers(links, max) == Slice(UniqueResults(Results(links), max), max)

\* scrapeUsersWrapper: what it returns for the users scrapeUsers returned, and
\* when scrapeUsers threw.
WrapperSuccess(users) == [kind |-> "json", success |-> TRUE, data |-> users]
WrapperRethrows == [kind |-> "rejected"]
WrapperFailure ==
  IF variant = "first"
    THEN [kind |-> "json", success |-> FALSE, users |-> <<>>]
    ELSE [kind |-> "json", success |-> FALSE, data |-> <<>>]

\* The try block of scrapeUsers is left with users (return or catch): the
\* finally block calls page.close().
Respond(users) ==
  /\ response' = [kind |-> "pending", returned |-> users]
  /\ docPc' = "closing"

\* A call inside the try block rejected: catch logs and returns [].
Caught(at) ==
  /\ threwAt' = at
  /\ Respond(<<>>)

\* The route has the query and calls the wrapper; scrapeUsers runs up to the
\* calls before page.goto (acquire, ensureBrowser, newPage, setViewport,
\* setUserAgent), which are followed in Spec.
ScrapeRoute ==
  /\ docPc = "idle"
  /\ docPc' = "setup"
  /\ UNCHANGED <<docInputs, threwAt, response, serverVars>>

\* The calls before page.goto have settled: a rejection before the try block
\* reaches the wrapper's catch, one inside it the catch of scrapeUsers.
SetupSettled(res) ==
  /\ docPc = "setup"
  /\ CASE res = "ok" -> /\ docPc' = "goto"
                        /\ UNCHANGED <<threwAt, response>>
       [] res = "threwBeforeTry" -> /\ threwAt' = "setup"
                                    /\ response' = WrapperFailure
                                    /\ docPc' = "done"
       [] res = "threwInTry" -> Caught("setup")
  /\ UNCHANGED <<docInputs, serverVars>>

\* page.goto settles.
DocGotoSettled(ok) ==
  /\ docPc = "goto"
  /\ IF ok
       THEN /\ docPc' = IF variant = "first" THEN "wait" ELSE "probe"
            /\ UNCHANGED <<threwAt, response>>
       ELSE Caught("goto")
  /\ UNCHANGED <<docInputs, serverVars>>

\* First copy: waitForSelector settles; its timeout is caught and logged.
DocWaitSettled(found) ==
  /\ docPc = "wait"
  /\ found \in BOOLEAN
  /\ docPc' = "evaluate"
  /\ UNCHANGED <<docInputs, threwAt, response, serverVars>>

\* Second copy: waitForAnySelector settles; its answer is only logged.
DocProbeSettled(hasContent) ==
  /\ docPc = "probe"
  /\ hasContent \in BOOLEAN
  /\ docPc' = "check"
  /\ UNCHANGED <<docInputs, threwAt, response, serverVars>>

\* Second copy: checkElementsExist(['a[href*="/@"]']) settles.
DocCheckSettled(ok) ==
  /\ docPc = "check"
  /\ IF ~ok
       THEN Caught("check")
       ELSE IF Len(document) = 0
         THEN Respond(<<>>) /\ UNCHANGED threwAt
         ELSE /\ docPc' = "evaluate"
              /\ UNCHANGED <<threwAt, response>>
  /\ UNCHANGED <<docInputs, serverVars>>

\* page.evaluate settles.
DocEvaluateSettled(ok) ==
  /\ docPc = "evaluate"
  /\ IF ok
       THEN /\ Respond(ExtractUsers(document, ParseMaxResults(maxResults)))
            /\ UNCHANGED threwAt
       ELSE Caught("evaluate")
  /\ UNCHANGED <<docInputs, serverVars>>

\* page.close() settles; catch (e) { // ignore } drops a rejection.  The
\* slot is released, scrapeUsers returns what the try block left and the
\* wrapper wraps it for the route to send.
DocCloseSettled(ok) ==
  /\ docPc = "closing"
  /\ closeThrew' = ~ok
  /\ response' = WrapperSuccess(response.returned)
  /\ docPc' = "done"
  /\ UNCHANGED <<docInputs, threwAt, maxConcurrent, currentConcurrent, queue,
                 globalBrowser, pc, browser, page, outcome, granted, released,
                 closeCalls, enqSeq, grantSeq, expired, poolVars, sdVars>>

DocInit ==
  /\ maxConcurrent = 1
  /\ InitCommon
  /\ NoShutdown
  /\ variant \in {"first", "second"}
  /\ maxResults \in MaxResultsSent
  /\ document \in SeqsUpTo(Hrefs, MaxAnchors)
  /\ content = {}
  /\ elements = [usernames |-> <<>>, images |-> <<>>, names |-> <<>>]
  /\ docPc = "idle"
  /\ threwAt = "none"
  /\ response = [kind |-> "none"]
  /\ previous = [kind |-> "none"]
  /\ probe = [waits |-> <<>>, reported |-> "none"]

DocNext ==
  \/ ScrapeRoute
  \/ \E res \in {"ok", "threwBeforeTry", "threwInTry"} : SetupSettled(res)
  \/ \E ok \in BOOLEAN : DocGotoSettled(ok)
  \/ \E found \in BOOLEAN : DocWaitSettled(found)
  \/ \E hasContent \in BOOLEAN : DocProbeSettled(hasContent)
  \/ \E ok \in BOOLEAN : DocCheckSettled(ok)
  \/ \E ok \in BOOLEAN : DocEvaluateSettled(ok)
  \/ \E ok \in BOOLEAN : DocCloseSettled(ok)

DocSpec == DocInit /\ [][DocNext]_vars

----------------------------------------------------------------------------
(* The same search sent twice while the document stays the same: the       *)
(* second request reaches page.evaluate on the document the first one      *)
(* read.  The callback keeps its results, its seenUsernames and its        *)
(* uniqueResults in variables of its own, created on each call.            *)

\* The first request has been answered; the second one is at page.evaluate.
ScrapeAgain ==
  /\ docPc = "done"
  /\ previous.kind = "none"
  /\ previous' = [kind |-> "kept", threwAt |-> threwAt, response |-> response]
  /\ docPc' = "evaluate"
  /\ threwAt' = "none"
  /\ response' = [kind |-> "none"]
  /\ UNCHANGED <<variant, maxResults, document, content, elements, probe,
                 serverVars>>

RepeatInit ==
  /\ maxConcurrent = 1
  /\ InitCommon
  /\ NoShutdown
  /\ variant \in {"first", "second"}
  /\ maxResults \in MaxResultsSent
  /\ document \in SeqsUpTo(Hrefs, MaxAnchors)
  /\ content = {}
  /\ elements = [usernames |-> <<>>, images |-> <<>>, names |-> <<>>]
  /\ docPc = "evaluate"
  /\ threwAt = "none"
  /\ response = [kind |-> "none"]
  /\ previous = [kind |-> "none"]
  /\ probe = [waits |-> <<>>, reported |-> "none"]

RepeatNext ==
  \/ \E ok \in BOOLEAN : DocEvaluateSettled(ok)
  \/ \E ok \in BOOLEAN : DocCloseSettled(ok)
  \/ ScrapeAgain

RepeatSpec == RepeatInit /\ [][RepeatNext]_vars

----------------------------------------------------------------------------
(* The readiness probe of a search request, wait by wait: the second copy  *)
(* calls waitForAnySelector(page, searchSelectors, 15000), the first copy  *)
(* awaits one page.waitForSelector inside try/catch.  The request is       *)
(* followed from the probe to its response.                                *)

SearchSelectors ==
  {"a[href*=/@]", ".css-1iaxnh7-5e6d46e3--PTitle.e11zs9t55", "[data-e2e=user-title]",
   ".user-title", "img[src*=tiktokcdn.com]"}
FirstCopySelectors ==
  {".css-1iaxnh7-5e6d46e3--PTitle.e11zs9t55, [data-e2e=user-title], .user-title"}
ProbeDocuments == {<<>>, <<"">>, <<"a">>, <<"a", "b", "a", "c">>}

probeFrame == <<variant, maxResults, document, content, elements, previous, threwAt,
                response, serverVars>>

Settled(waits) == \A sel \in DOMAIN waits : waits[sel] # "pending"

\* results.some(result => result.status === 'fulfilled' && result.value !== null)
\* over promises that .catch(() => null) has made resolve with null when the
\* wait timed out or rejected otherwise.
SomeFulfilledAnyValue(waits) == \E sel \in DOMAIN waits : waits[sel] # "pending"
SomeFulfilledWithElement(waits) == \E sel \in DOMAIN waits : waits[sel] = "element"

\* One page.waitForSelector(selector, {timeout}) settles: with the element,
\* with a TimeoutError, or with another rejection.
WaitForSelectorSettled(sel, how) ==
  /\ docPc = "probe"
  /\ sel \in DOMAIN probe.waits
  /\ probe.waits[sel] = "pending"
  /\ probe' = [probe EXCEPT !.waits[sel] = how]
  /\ UNCHANGED <<probeFrame, docPc>>

\* Promise.allSettled has resolved and the probe returns (second copy), or
\* the awaited waitForSelector has settled and try/catch is left (first
\* copy): the result is logged and the request goes on.
ProbeReturnedEndsRequest ==
  /\ docPc = "probe"
  /\ Settled(probe.waits)
  /\ probe' = [probe EXCEPT !.reported =
                  IF SomeFulfilledWithElement(probe.waits) THEN "met" ELSE "unmet"]
  /\ IF SomeFulfilledWithElement(probe.waits)
       THEN /\ docPc' = IF variant = "first" THEN "evaluate" ELSE "check"
            /\ UNCHANGED response
       ELSE Respond(<<>>)
  /\ UNCHANGED <<variant, maxResults, document, content, elements, previous, threwAt,
                 serverVars>>
ProbeReturned ==
  /\ docPc = "probe"
  /\ Settled(probe.waits)
  /\ probe' = [probe EXCEPT !.reported =
                  IF SomeFulfilledWithElement(probe.waits) THEN "met" ELSE "unmet"]
  /\ docPc' = IF variant = "first" THEN "evaluate" ELSE "check"
  /\ UNCHANGED probeFrame

ProbeInit ==
  /\ maxConcurrent = 1
  /\ InitCommon
  /\ NoShutdown
  /\ variant \in {"first", "second"}
  /\ maxResults \in MaxResultsSent
  /\ document \in ProbeDocuments
  /\ content = {}
  /\ elements = [usernames |-> <<>>, images |-> <<>>, names |-> <<>>]
  /\ docPc = "probe"
  /\ threwAt = "none"
  /\ response = [kind |-> "none"]
  /\ previous = [kind |-> "none"]
  /\ probe = [waits |-> [sel \in IF variant = "first" THEN FirstCopySelectors
                                                      ELSE SearchSelectors
                           |-> "pending"],
              reported |-> "none"]

ProbeNext ==
  \/ \E sel \in SearchSelectors \cup FirstCopySelectors,
        how \in {"element", "timeout", "rejected"} : WaitForSelectorSettled(sel, how)
  \/ ProbeReturned
  \/ \E ok \in BOOLEAN : DocCheckSettled(ok)
  \/ \E ok \in BOOLEAN : DocEvaluateSettled(ok)
  \/ \E ok \in BOOLEAN : DocCloseSettled(ok)

ProbeSpec == ProbeInit /\ [][ProbeNext]_vars

----------------------------------------------------------------------------
(* The image and the name the evaluate callback of tiktok-api-server.js    *)
(* resolves for one anchor /@a.  elements holds what the anchor and its    *)
(* container hold: per selector "absent" when querySelector finds no       *)
(* element, otherwise the trimmed text (the src for the image) of the      *)
(* first element found.  fallbacks are the selectors after the nickname    *)
(* marker in the order the copy tries them: inside the anchor in the first *)
(* copy, inside the container link.closest('div, section, article') in the *)
(* second.                                                                 *)

FallbackTexts == <<"f1", "f2", "f3", "f4">>
Found(i) == {"absent", "", "Break reminders", FallbackTexts[i]}
Anchors ==
  [username : {"a"},
   img : {"absent", "", "i"},
   nickname : {"absent", "", "a", "n"},
   hasParent : BOOLEAN,
   parentNickname : {"absent", "", "pn"},
   fallbacks : {f \in [1..4 -> UNION {Found(i) : i \in 1..4}] :
                  \A i \in 1..4 : f[i] \in Found(i)}]

\* text && text !== username, and for the fallbacks
\* && !text.includes('Break reminders') (&& text.length < 50)
UsableNickname(text, username) == text \notin {"absent", "", username}
UsableFallback(text, username) ==
  text \notin {"absent", "", username, "Break reminders"}

\* for (const selector of nameSelectors): the first usable text from
\* selector i on, the username when there is none.
RECURSIVE FallbackLoop(_, _)
FallbackLoop(el, i) ==
  IF i > Len(el.fallbacks) THEN el.username
  ELSE IF UsableFallback(el.fallbacks[i], el.username) THEN el.fallbacks[i]
  ELSE FallbackLoop(el, i + 1)

\* First copy: one loop over the nickname marker and the fallbacks.
ResolveNameFirst(el) ==
  IF UsableNickname(el.nickname, el.username) THEN el.nickname
  ELSE FallbackLoop(el, 1)

\* Second copy: if (nicknameEl) {...} else { parent ... if (parentNicknameEl)
\* {...} else { fallbacks } }.
ResolveNameSecond(el) ==
  IF el.nickname # "absent"
    THEN (IF UsableNickname(el.nickname, el.username) THEN el.nickname
          ELSE el.username)
  ELSE IF ~el.hasParent THEN el.username
  ELSE IF el.parentNickname # "absent"
    THEN (IF UsableNickname(el.parentNickname, el.username) THEN el.parentNickname
          ELSE el.username)
  ELSE FallbackLoop(el, 1)

\* imgEl ? imgEl.src || imgEl.getAttribute('src') || '' : ''
ResolveImg(el) == IF el.img = "absent" THEN "" ELSE el.img

\* page.evaluate resolves with the record of the anchor.
FacetEvaluateSettled ==
  /\ docPc = "evaluate"
  /\ response' = [kind |-> "users", success |-> TRUE,
                  data |-> <<[username |-> elements.username,
                              img |-> ResolveImg(elements),
                              name |-> IF variant = "first"
                                         THEN ResolveNameFirst(elements)
                                         ELSE ResolveNameSecond(elements)]>>]
  /\ docPc' = "done"
  /\ UNCHANGED <<docInputs, threwAt, serverVars>>

FacetInit ==
  /\ maxConcurrent = 1
  /\ InitCommon
  /\ NoShutdown
  /\ variant \in {"first", "second"}
  /\ maxResults = 3
  /\ document = <<"a">>
  /\ content = {}
  /\ elements \in Anchors
  /\ docPc = "evaluate"
  /\ threwAt = "none"
  /\ response = [kind |-> "none"]
  /\ previous = [kind |-> "none"]
  /\ probe = [waits |-> <<>>, reported |-> "none"]

FacetNext == FacetEvaluateSettled

FacetSpec == FacetInit /\ [][FacetNext]_vars

----------------------------------------------------------------------------
(* The extractions that pair element lists by index: scrapeUsers of the    *)
(* command-line scraper (tiktok-user-scraper.js, "cli") and of the pool    *)
(* server (part_001, "pool").  elements holds, per selector list the       *)
(* evaluate callback ends up using, the text or src of its elements.       *)

MaxElements == 2       \* elements matched by one selector list
Texts == {"", "a", "b"}

MinOf(S) == CHOOSE x \in S : \A y \in S : x <= y
MaxOf(S) == CHOOSE x \in S : \A y \in S : x >= y

\* list[i] of a NodeList read from index 0: the text of the element, "" when
\* there is no such element.
TextAt(list, i) == IF i + 1 \in DOMAIN list THEN list[i + 1] ELSE ""

\* tiktok-user-scraper.js: the for loop of the evaluate callback, from index i
\* on.
RECURSIVE CliLoop(_, _, _, _, _, _)
CliLoop(el, max, limit, i, found, results) ==
  IF ~(found < max /\ i < limit) THEN results
  ELSE LET username == TextAt(el.usernames, i)
           img == TextAt(el.images, i)
           name == IF i + 1 \in DOMAIN el.names THEN el.names[i + 1] ELSE username
       IN IF username # "" \/ img # ""
            THEN CliLoop(el, max, limit, i + 1, found + 1,
                         Append(results, [username |-> username, img |-> img,
                                          name |-> name]))
            ELSE CliLoop(el, max, limit, i + 1, found, results)

CliExtract(el, max) ==
  LET limit == MinOf({max, MaxOf({Len(el.usernames), Len(el.images), Len(el.names)})})
  IN Slice(CliLoop(el, max, limit, 0, 0, <<>>), max)

\* part_001: the for loop of the evaluate callback, from index i on.
RECURSIVE PoolLoop(_, _, _, _)
PoolLoop(el, limit, i, results) ==
  IF ~(i < limit) THEN results
  ELSE LET username == TextAt(el.usernames, i)
           img == TextAt(el.images, i)
           name == TextAt(el.names, i)
       IN IF username # "" /\ img # ""
            THEN PoolLoop(el, limit, i + 1,
                          Append(results, [username |-> username, img |-> img,
                                           name |-> IF name # "" THEN name
                                                    ELSE username]))
            ELSE PoolLoop(el, limit, i + 1, results)

\* part_001: "If no users found, return mock data".
MockUsernames == <<"mock_user", "mock_user_2", "mock_user_3">>
MockNames == <<"Mock User", "Mock User 2", "Mock User 3">>
MockData(max) ==
  [i \in 1..(IF MinOf({max, 3}) < 0 THEN 0 ELSE MinOf({max, 3})) |->
     [username |-> MockUsernames[i],
      img |-> "https://via.placeholder.com/100x100?text=Avatar",
      name |-> MockNames[i]]]

PoolExtract(el, max) ==
  LET limit == MinOf({max, Len(el.usernames), Len(el.images), Len(el.names)})
      results == PoolLoop(el, limit, 0, <<>>)
  IN IF Len(results) = 0 THEN MockData(max) ELSE results

\* page.evaluate of the command-line scraper resolves and scrapeUsers returns.
CliEvaluateSettled ==
  /\ docPc = "evaluate"
  /\ variant = "cli"
  /\ response' = [kind |-> "users", success |-> TRUE,
                  data |-> CliExtract(elements, maxResults)]
  /\ docPc' = "done"
  /\ UNCHANGED <<docInputs, threwAt, serverVars>>

\* page.evaluate of the pool scraper resolves, scrapeUsers returns and the
\* server's wrapper wraps the users.
PoolUsersEvaluateSettled ==
  /\ docPc = "evaluate"
  /\ variant = "pool"
  /\ LET users == PoolExtract(elements, maxResults) IN
       response' = [kind |-> "json", success |-> TRUE, data |-> users,
                    count |-> Len(users)]
  /\ docPc' = "done"
  /\ UNCHANGED <<docInputs, threwAt, serverVars>>

\* part_000: the evaluate callback, which has the loop of part_001 and no
\* mock data.
SimpleExtract(el, max) ==
  PoolLoop(el, MinOf({max, Len(el.usernames), Len(el.images), Len(el.names)}),
           0, <<>>)

\* simple-api-server.js over the scraper of part_000: page.evaluate
\* resolves, scrapeUsers returns the users and the server's scrapeUsers
\* returns {success: true, data: {..., users, count: users.length}}.
SimpleUsersEvaluateSettled ==
  /\ docPc = "evaluate"
  /\ variant = "simple"
  /\ LET users == SimpleExtract(elements, maxResults) IN
       response' = [kind |-> "json", success |-> TRUE, data |-> users,
                    count |-> Len(users)]
  /\ docPc' = "done"
  /\ UNCHANGED <<docInputs, threwAt, serverVars>>

ElementsInit ==
  /\ maxConcurrent = 1
  /\ InitCommon
  /\ NoShutdown
  /\ variant \in {"cli", "pool", "simple"}
  /\ maxResults \in MaxResultsSent \cup {1}
  /\ variant = "simple" => ~(maxResults < 1 \/ maxResults > 20)
  /\ document = <<>>
  /\ content = {}
  /\ elements \in [usernames : SeqsUpTo(Texts, MaxElements),
                   images : SeqsUpTo(Texts, MaxElements),
                   names : SeqsUpTo(Texts, MaxElements)]
  /\ docPc = "evaluate"
  /\ threwAt = "none"
  /\ response = [kind |-> "none"]
  /\ previous = [kind |-> "none"]
  /\ probe = [waits |-> <<>>, reported |-> "none"]

ElementsNext ==
  \/ CliEvaluateSettled
  \/ PoolUsersEvaluateSettled
  \/ SimpleUsersEvaluateSettled

ElementsSpec == ElementsInit /\ [][ElementsNext]_vars

----------------------------------------------------------------------------
(* One profile request of tiktok-api-server.js (scrapeUserProfile called   *)
(* by scrapeUserProfileWrapper) followed through its document, in both     *)
(* copies of the server.  It is request 1 at the gate.                     *)

\* The selectors the second copy waits for, and the ones it then requires.
ProfileSelectors ==
  {"[data-e2e=user-title]", ".user-title", "h1", "h2", "img[src*=tiktokcdn.com]",
   "[data-e2e=user-avatar] img", ".css-1iaxnh7-5e6d46e3--PTitle.e11zs9t55"}
AcceptanceSelectors ==
  {"[data-e2e=user-title]", ".user-title", "h1", "h2", "img[src*=tiktokcdn.com]",
   "[data-e2e=user-avatar] img"}

\* checkElementsExist(page, selectors)
CheckElementsExist(selectors) == \E sel \in selectors : sel \in content

\* scrapeUserProfileWrapper: what it returns for what scrapeUserProfile
\* returned ("record" or "null"), and when scrapeUserProfile threw.
ProfileWrapper(returned) ==
  IF returned = "record"
    THEN [kind |-> "json", success |-> TRUE, message |-> "Found user profile",
          returned |-> returned]
    ELSE [kind |-> "json", success |-> FALSE,
          message |-> "User not found or profile is private", returned |-> returned]
ProfileWrapperFailure ==
  [kind |-> "json", success |-> FALSE, message |-> "Error", returned |-> "threw"]

profileFrame == <<docInputs, maxConcurrent, queue, globalBrowser, browser, page,
                  outcome, closeThrew, enqSeq, grantSeq, poolVars, sdVars>>

\* The try block is left with a return value (return or catch): the finally
\* block calls page.close().
LeaveProfileTry(returned, at) ==
  /\ threwAt' = at
  /\ response' = [kind |-> "pending", returned |-> returned]
  /\ docPc' = "closing"
  /\ closeCalls' = [closeCalls EXCEPT ![1] = @ + 1]

\* The route calls the wrapper; scrapeUserProfile takes the free slot and goes
\* on to ensureBrowser, newPage, setViewport and setUserAgent.
ProfileRoute ==
  /\ docPc = "idle"
  /\ HasFreeSlot
  /\ currentConcurrent' = currentConcurrent + 1
  /\ granted' = [granted EXCEPT ![1] = @ + 1]
  /\ pc' = [pc EXCEPT ![1] = "acquired"]
  /\ docPc' = "setup"
  /\ UNCHANGED <<profileFrame, released, closeCalls, expired, threwAt, response>>

\* The calls before page.goto have settled: a rejection before the try block
\* leaves scrapeUserProfile at once, one inside it is caught.
ProfileSetupSettled(res) ==
  /\ docPc = "setup"
  /\ CASE res = "ok" -> /\ docPc' = "goto"
                        /\ UNCHANGED <<threwAt, response, closeCalls>>
       [] res = "threwBeforeTry" -> /\ threwAt' = "setup"
                                    /\ response' = ProfileWrapperFailure
                                    /\ docPc' = "done"
                                    /\ UNCHANGED closeCalls
       [] res = "threwInTry" -> LeaveProfileTry("null", "setup")
  /\ UNCHANGED <<profileFrame, currentConcurrent, granted, released, pc, expired>>

\* page.goto settles.
ProfileGotoSettled(ok) ==
  /\ docPc = "goto"
  /\ IF ok
       THEN /\ docPc' = IF variant = "first" THEN "wait" ELSE "probe"
            /\ UNCHANGED <<threwAt, response, closeCalls>>
       ELSE LeaveProfileTry("null", "goto")
  /\ UNCHANGED <<profileFrame, currentConcurrent, granted, released, pc, expired>>

\* First copy: waitForSelector settles; a timeout is caught and logged, and
\* page.evaluate is called either way.
ProfileWaitSettled(found) ==
  /\ docPc = "wait"
  /\ found \in BOOLEAN
  /\ docPc' = "evaluate"
  /\ UNCHANGED <<profileFrame, currentConcurrent, granted, released, pc, expired,
                 threwAt, response, closeCalls>>

\* Second copy: waitForAnySelector settles; its answer is only logged.
ProfileProbeSettled(hasContent) ==
  /\ docPc = "probe"
  /\ hasContent \in BOOLEAN
  /\ docPc' = "check"
  /\ UNCHANGED <<profileFrame, currentConcurrent, granted, released, pc, expired,
                 threwAt, response, closeCalls>>

\* Second copy: checkElementsExist settles; without profile content the
\* method returns null.
ProfileCheckSettled(ok) ==
  /\ docPc = "check"
  /\ IF ~ok
       THEN LeaveProfileTry("null", "check")
       ELSE IF ~CheckElementsExist(AcceptanceSelectors)
         THEN LeaveProfileTry("null", "none")
         ELSE /\ docPc' = "evaluate"
              /\ UNCHANGED <<threwAt, response, closeCalls>>
  /\ UNCHANGED <<profileFrame, currentConcurrent, granted, released, pc, expired>>

\* page.evaluate settles: the callback always returns its result object.
ProfileEvaluateSettled(ok) ==
  /\ docPc = "evaluate"
  /\ IF ok
       THEN LeaveProfileTry("record", "none")
       ELSE LeaveProfileTry("null", "evaluate")
  /\ UNCHANGED <<profileFrame, currentConcurrent, granted, released, pc, expired>>

\* page.close() settles (a rejection is ignored): the slot is released,
\* scrapeUserProfile returns and the wrapper builds the response.
ProfileCloseSettled(ok) ==
  /\ docPc = "closing"
  /\ SemRelease(1)
  /\ response' = ProfileWrapper(response.returned)
  /\ docPc' = "done"
  /\ closeThrew' = ~ok
  /\ UNCHANGED <<docInputs, globalBrowser, browser, page, outcome, closeCalls,
                 poolVars, sdVars, threwAt>>

ProfileInit ==
  /\ maxConcurrent = 1
  /\ InitCommon
  /\ NoShutdown
  /\ variant \in {"first", "second"}
  /\ maxResults = 0
  /\ document = <<>>
  /\ content \in SUBSET ProfileSelectors
  /\ elements = [usernames |-> <<>>, images |-> <<>>, names |-> <<>>]
  /\ docPc = "idle"
  /\ threwAt = "none"
  /\ response = [kind |-> "none"]
  /\ previous = [kind |-> "none"]
  /\ probe = [waits |-> <<>>, reported |-> "none"]

ProfileNext ==
  \/ ProfileRoute
  \/ \E res \in {"ok", "threwBeforeTry", "threwInTry"} : ProfileSetupSettled(res)
  \/ \E ok \in BOOLEAN : ProfileGotoSettled(ok)
  \/ \E found \in BOOLEAN : ProfileWaitSettled(found)
  \/ \E hasContent \in BOOLEAN : ProfileProbeSettled(hasContent)
  \/ \E ok \in BOOLEAN : ProfileCheckSettled(ok)
  \/ \E ok \in BOOLEAN : ProfileEvaluateSettled(ok)
  \/ \E ok \in BOOLEAN : ProfileCloseSettled(ok)

ProfileSpec == ProfileInit /\ [][ProfileNext]_vars

----------------------------------------------------------------------------
(* The class Semaphore as tiktok-user-scraper.js exports it: callers that  *)
(* call acquire() and release() in any order.                              *)

MaxStrayReleases == 1  \* release() calls a caller makes beyond its grants

\* Everything but the gate and its history.
gateFrame == <<globalBrowser, browser, page, outcome, closeCalls, closeThrew,
               poolVars, sdVars, docVars>>

\* acquire() called by caller o, up to the await of its promise.
SemAcquire(o) ==
  /\ Arrives(o)
  /\ IF HasFreeSlot
       THEN /\ currentConcurrent' = currentConcurrent + 1
            /\ granted' = [granted EXCEPT ![o] = @ + 1]
            /\ pc' = [pc EXCEPT ![o] = "acquired"]
            /\ UNCHANGED <<queue, enqSeq>>
       ELSE /\ queue' = Append(queue, o)
            /\ enqSeq' = Append(enqSeq, o)
            /\ pc' = [pc EXCEPT ![o] = "queued"]
            /\ UNCHANGED <<currentConcurrent, granted>>
  /\ UNCHANGED <<maxConcurrent, released, grantSeq, expired, gateFrame>>

\* release() called by caller o, which is not waiting in acquire(): it holds
\* a slot, has released it already, or never asked for one.
SemReleaseCalled(o) ==
  /\ \/ Arrives(o)
     \/ pc[o] \in {"acquired", "done"}
  /\ released[o] - granted[o] < MaxStrayReleases
  /\ SemRelease(o)
  /\ UNCHANGED gateFrame

GateNext ==
  \/ \E o \in Ops : SemAcquire(o)
  \/ \E o \in Ops : SemReleaseCalled(o)

GateSpec == Init /\ [][GateNext]_vars

----------------------------------------------------------------------------
(* The capacity the gate is built with: parseInt(MAX_CONCURRENT_PAGES) ||  *)
(* default.  A setting is absent or a string; a string is the sequence of  *)
(* its characters.                                                         *)

MaxSettingLen == 2     \* characters in a MAX_CONCURRENT_PAGES setting
SettingChars == {"-", "0", "1", "2", "x"}
Digits == {"0", "1", "2"}
Settings ==
  {[present |-> FALSE, text |-> <<>>]}
    \cup {[present |-> TRUE, text |-> t] : t \in SeqsUpTo(SettingChars, MaxSettingLen)}

DigitValue(c) == CASE c = "0" -> 0 [] c = "1" -> 1 [] c = "2" -> 2

\* The longest prefix of digits of a string, and its value in base 10.
RECURSIVE LeadingDigits(_)
LeadingDigits(t) ==
  IF t = <<>> \/ Head(t) \notin Digits THEN <<>>
  ELSE <<Head(t)>> \o LeadingDigits(Tail(t))

RECURSIVE DecimalValue(_)
DecimalValue(ds) ==
  IF ds = <<>> THEN 0
  ELSE 10 * DecimalValue(SubSeq(ds, 1, Len(ds) - 1)) + DigitValue(ds[Len(ds)])

\* parseInt(setting): an optional sign and the leading digits; NaN without a
\* digit, and for undefined.
ParseInt(setting) ==
  LET t == setting.text
      negative == t # <<>> /\ Head(t) = "-"
      ds == LeadingDigits(IF negative THEN Tail(t) ELSE t)
  IN IF ~setting.present \/ ds = <<>>
       THEN [nan |-> TRUE, value |-> 0]
       ELSE [nan |-> FALSE,
             value |-> IF negative THEN 0 - DecimalValue(ds) ELSE DecimalValue(ds)]

\* parsed || default: NaN and 0 are falsy.
OrDefault(parsed, default) ==
  IF parsed.nan \/ parsed.value = 0 THEN default ELSE parsed.value

\* new Semaphore(parseInt(process.env.MAX_CONCURRENT_PAGES) || 5) of the
\* server; the command-line scraper uses 3.
DefaultCapacity(v) == IF v = "cli" THEN 3 ELSE 5
Capacity(v, setting) == OrDefault(ParseInt(setting), DefaultCapacity(v))

ConfigInit ==
  /\ InitCommon
  /\ NoShutdown
  /\ variant \in {"first", "second", "cli"}
  /\ \E setting \in Settings : maxConcurrent = Capacity(variant, setting)
  /\ maxResults = 0
  /\ document = <<>>
  /\ content = {}
  /\ elements = [usernames |-> <<>>, images |-> <<>>, names |-> <<>>]
  /\ docPc = "idle"
  /\ threwAt = "none"
  /\ response = [kind |-> "none"]
  /\ previous = [kind |-> "none"]
  /\ probe = [waits |-> <<>>, reported |-> "none"]

ConfigSpec == ConfigInit /\ [][GateNext]_vars

----------------------------------------------------------------------------
(* SIGINT / SIGTERM.  The handlers of tiktok-api-server.js await           *)
(* closeGlobalBrowser() and call process.exit(0); those of                 *)
(* tiktok-user-scraper.js call process.exit(0) at once.  The command-line  *)
(* process runs main(): one scraper, one scrapeUsers call (request 1,      *)
(* whose this.browser is browser[1]), and scraper.close() in its finally   *)
(* block.  A process that has exited takes no further step.                *)

Exited == shutdownPc \in {"exited", "failed"}
LaunchedEngines == {o \in Ops : browser[o] = o} \cup closedEngines

\* The server goes on serving until it exits.
LiveStart(o, q) == variant # "cli" /\ ~Exited /\ Start(o, q)
LiveOpStep(o) == variant # "cli" /\ ~Exited /\ OpStep(o)

\* The server's handler runs up to its await of closeGlobalBrowser().
SignalReceived == variant # "cli" /\ CloseGlobalBrowser

\* closeGlobalBrowser() has returned to the handler: process.exit(0).
SignalExit ==
  /\ shutdownPc \in {"noop", "closed", "closeFailed"}
  /\ shutdownPc' = "exited"
  /\ UNCHANGED <<opVars, globalBrowser, closedEngines, arrivedAtShutdown, poolVars,
                 docVars>>

cliFrame == <<semVars, histVars, globalBrowser, page, outcome, expired, poolVars,
              arrivedAtShutdown, docVars>>

\* main() calls scraper.scrapeUsers, which takes the free slot and calls
\* ensureBrowser(): this.browser is null and puppeteer.launch is awaited.
CliMain ==
  /\ variant = "cli"
  /\ ~Exited
  /\ pc[1] = "idle"
  /\ pc' = [pc EXCEPT ![1] = "launching"]
  /\ UNCHANGED <<cliFrame, browser, shutdownPc, closedEngines>>

\* puppeteer.launch settles.  A rejection leaves scrapeUsers before its try
\* block and reaches the catch of main: process.exit(1).
CliLaunchSettled(ok) ==
  /\ variant = "cli"
  /\ ~Exited
  /\ pc[1] = "launching"
  /\ IF ok
       THEN /\ browser' = [browser EXCEPT ![1] = 1]
            /\ pc' = [pc EXCEPT ![1] = "scraping"]
            /\ UNCHANGED shutdownPc
       ELSE /\ shutdownPc' = "failed"
            /\ UNCHANGED <<browser, pc>>
  /\ UNCHANGED <<cliFrame, closedEngines>>

\* scrapeUsers settles.  When it returns, the finally block of main calls
\* scraper.close(), which calls this.browser.close(); when it rejects
\* (newPage rejected), the catch of main calls process.exit(1).
CliScrapeSettled(ok) ==
  /\ variant = "cli"
  /\ ~Exited
  /\ pc[1] = "scraping"
  /\ IF ok
       THEN /\ closedEngines' = closedEngines \cup {browser[1]}
            /\ pc' = [pc EXCEPT ![1] = "closing"]
            /\ UNCHANGED shutdownPc
       ELSE /\ shutdownPc' = "failed"
            /\ UNCHANGED <<closedEngines, pc>>
  /\ UNCHANGED <<cliFrame, browser>>

\* this.browser.close() settles: a rejection is logged, finally sets
\* this.browser to null.
CliCloseSettled(ok) ==
  /\ variant = "cli"
  /\ ~Exited
  /\ pc[1] = "closing"
  /\ ok \in BOOLEAN
  /\ browser' = [browser EXCEPT ![1] = Null]
  /\ pc' = [pc EXCEPT ![1] = "done"]
  /\ UNCHANGED <<cliFrame, shutdownPc, closedEngines>>

\* The handler of the command-line scraper: process.exit(0).
CliSignal ==
  /\ variant = "cli"
  /\ ~Exited
  /\ shutdownPc' = "exited"
  /\ UNCHANGED <<cliFrame, pc, browser, closedEngines>>

SignalInit ==
  /\ maxConcurrent \in 1..MaxCapacity
  /\ InitCommon
  /\ NoShutdown
  /\ variant \in {"second", "cli"}
  /\ maxResults = 0
  /\ document = <<>>
  /\ content = {}
  /\ elements = [usernames |-> <<>>, images |-> <<>>, names |-> <<>>]
  /\ docPc = "idle"
  /\ threwAt = "none"
  /\ response = [kind |-> "none"]
  /\ previous = [kind |-> "none"]
  /\ probe = [waits |-> <<>>, reported |-> "none"]

SignalNext ==
  \/ \E o \in ShutdownOps, q \in {"", "a"} : LiveStart(o, q)
  \/ \E o \in ShutdownOps : LiveOpStep(o)
  \/ SignalReceived
  \/ \E ok \in BOOLEAN : BrowserCloseSettled(ok)
  \/ SignalExit
  \/ CliMain
  \/ \E ok \in BOOLEAN : CliLaunchSettled(ok)
  \/ \E ok \in BOOLEAN : CliScrapeSettled(ok)
  \/ \E ok \in BOOLEAN : CliCloseSettled(ok)
  \/ CliSignal

SignalSpec == SignalInit /\ [][SignalNext]_vars

----------------------------------------------------------------------------
(* Properties                                                              *)

Holders == {o \in Ops : granted[o] > released[o]}
Quiescent == \A o \in Ops : pc[o] \in {"idle", "done"}
Progress == \E o \in Ops : OpStep(o)

\* C1: the gate counter stays within 0..maxConcurrent and at most
\* maxConcurrent requests hold a slot that they have not released.
GateBounded ==
  /\ 0 <= currentConcurrent
  /\ currentConcurrent <= maxConcurrent
  /\ Cardinality(Holders) <= maxConcurrent
\* C1 witness: more requests than slots; the gate is full and a request waits.
GateContended ==
  /\ Len(queue) > 0
  /\ Cardinality(Holders) = maxConcurrent
  /\ \E o \in Ops : pc[o] = "done" /\ released[o] = 1

\* C2 (as claimed): a request that has returned has released as often as it
\* was granted, and the counter is 0 when no request is in flight.
AcquireReleaseBalanced ==
  /\ \A o \in Ops : pc[o] = "done" => granted[o] = released[o]
  /\ Quiescent => currentConcurrent = 0

\* C3 (as claimed): no request waits forever; while a request has not
\* returned, some request can take a step.
NoRequestStuck ==
  (\E o \in Ops : pc[o] \notin {"idle", "done"}) => ENABLED Progress

\* C4: waiters are resumed in the order in which they were queued.
GrantsAreFIFO ==
  /\ Len(grantSeq) <= Len(enqSeq)
  /\ \A i \in 1..Len(grantSeq) : grantSeq[i] = enqSeq[i]
\* C4 witness: two requests waited at the same time and one has been resumed.
TwoWaitersOneResumed ==
  /\ Len(enqSeq) >= 2
  /\ Len(grantSeq) = 1
  /\ Len(queue) >= 1
  /\ enqSeq[2] \in {queue[i] : i \in 1..Len(queue)}

\* C5 (as claimed): at most one puppeteer.launch is in flight.
SingleFlightLaunch ==
  Cardinality({o \in Ops : pc[o] = "launching"}) <= 1

\* C6: a request that opened a page calls page.close() exactly once before
\* it returns, and a request without a page never calls it.
PageClosedExactlyOnce ==
  \A o \in Ops :
    /\ closeCalls[o] <= 1
    /\ page[o] = Null => closeCalls[o] = 0
    /\ (pc[o] = "done" /\ page[o] # Null) => closeCalls[o] = 1
\* C6 witness: requests have returned through the early return and through
\* the catch block, each having closed its page.
ClosedOnEarlyReturnAndCatch ==
  \E o, p \in Ops :
    /\ pc[o] = "done" /\ outcome[o] = "nocontent" /\ closeCalls[o] = 1
    /\ pc[p] = "done" /\ outcome[p] = "caught" /\ closeCalls[p] = 1

\* C7 (as claimed): the records a request returns are read from the document
\* that the same request navigated to.
RecordsFromOwnNavigation ==
  \A o \in Ops : outcome[o] = "success" => resultDoc[o] = query[o]

\* C8 (as claimed): a request whose deadline passed while it was queued is
\* never granted a slot.
ExpiredWaiterNeverGranted ==
  \A o \in Ops : expired[o] => (granted[o] = 0 /\ pc[o] = "queued")

\* C9: the slot is released at most once, only when the page.close() attempt
\* has settled, and always when it has settled, also when it rejected.
ReleaseAfterCloseAttempt ==
  \A o \in Ops :
    /\ released[o] <= 1
    /\ released[o] = 1 => (closeCalls[o] = 1 /\ pc[o] = "done")
    /\ (pc[o] = "done" /\ closeCalls[o] = 1) => released[o] = 1
\* C9 witness: page.close() rejected and the slot was released all the same.
ReleasedThoughCloseThrew ==
  /\ closeThrew
  /\ \E o \in Ops :
       /\ pc[o] = "done" /\ closeCalls[o] = 1 /\ released[o] = 1
       /\ \A p \in Ops \ {o} : closeCalls[p] = 0

\* C10 (as claimed): once the requests whose launch failed have returned, the
\* engine is uninitialized unless another launch succeeded, and a later
\* request gets a slot at once and so can attempt a launch.
LaunchFailureDoesNotPoison ==
  (Quiescent /\ \E o \in Ops : outcome[o] = "launchFailed") =>
    /\ HasFreeSlot
    /\ (\A o \in Ops : browser[o] = Null) => globalBrowser = Null

\* C11: shutdown without an engine is a no-op that raises nothing and changes
\* neither global; shutdown with an engine leaves globalBrowser and the cached
\* globalPage null when it ends, also when browser.close() rejected.
ShutdownLeavesUninitialized ==
  [][/\ (shutdownPc = "idle" /\ shutdownPc' # "idle" /\ globalBrowser = Null)
          => (shutdownPc' = "noop" /\ UNCHANGED <<globalBrowser, globalPage>>)
     /\ (shutdownPc = "closing" /\ shutdownPc' # "closing")
          => (globalBrowser' = Null /\ globalPage' = Null)]_vars

\* C12: a request that starts after closeGlobalBrowser() has ended never works
\* on an engine that was closed: the engine it holds comes from a launch that
\* settled after the shutdown, and no closed engine is registered any more.
EngineFreshAfterShutdown ==
  /\ shutdownPc \notin {"idle", "closing"} => globalBrowser \notin closedEngines
  /\ \A o \in Ops :
       (shutdownPc \notin {"idle", "closing"} /\ o > arrivedAtShutdown)
         => browser[o] \notin closedEngines
RelaunchedAfterShutdown ==
  \E o \in Ops :
    /\ shutdownPc \in {"closed", "closeFailed"}
    /\ o > arrivedAtShutdown
    /\ closedEngines # {}
    /\ browser[o] = o
    /\ outcome[o] = "success"

\* C13: a search with an empty query throws before it touches anything: the
\* step that rejects it leaves the gate (currentConcurrent, queue), the engine
\* and every page as they were, grants and queues nothing, and moves no other
\* request.
EmptyQueryTouchesNothing ==
  [][\A o \in Ops :
       (outcome[o] = "none" /\ outcome'[o] = "invalid")
         => /\ pc[o] = "idle" /\ pc'[o] = "done"
            /\ \A p \in Ops \ {o} : pc'[p] = pc[p]
            /\ UNCHANGED <<maxConcurrent, currentConcurrent, queue, granted, enqSeq,
                           globalBrowser, browser, page>>]_vars
EmptyQueryRejectedWhileGateBusy ==
  \E o, p \in Ops :
    /\ outcome[o] = "invalid" /\ pc[o] = "done"
    /\ granted[o] = 0 /\ page[o] = Null
    /\ granted[p] > released[p] /\ pc[p] # "done"
    /\ currentConcurrent = maxConcurrent

\* What a response carries as records, and the handles of records.
Data(r) == IF "data" \in DOMAIN r THEN r.data ELSE <<>>
HandlesOf(users) == [i \in DOMAIN users |-> users[i].username]

\* The handles of a sequence of handles, each kept where it occurs first
\* (an anchor without a handle contributes none), and the first n of a sequence.
DedupHandles(hs) ==
  LET F[i \in 0..Len(hs)] ==
        IF i = 0 THEN <<>>
        ELSE IF hs[i] = "" \/ \E j \in 1..(i - 1) : hs[j] = hs[i]
          THEN F[i - 1]
          ELSE Append(F[i - 1], hs[i])
  IN F[Len(hs)]
Take(q, n) == SubSeq(q, 1, IF n < Len(q) THEN n ELSE Len(q))
RECURSIVE IsSubsequence(_, _)
IsSubsequence(a, b) ==
  IF a = <<>> THEN TRUE
  ELSE IF b = <<>> THEN FALSE
  ELSE IF Head(a) = Head(b) THEN IsSubsequence(Tail(a), Tail(b))
  ELSE IsSubsequence(a, Tail(b))

\* The handles the document offers, in document order, and the limit the
\* scraper method received.
DocumentHandles ==
  IF variant \in {"first", "second"} THEN document ELSE elements.usernames
LimitUsed ==
  IF variant \in {"first", "second"} THEN ParseMaxResults(maxResults) ELSE maxResults

\* Where handle h occurs first in hs (Len(hs) + 1 if nowhere), and whether a
\* record was read from the document.
FirstAt(hs, h) == MinOf({k \in DOMAIN hs : hs[k] = h} \cup {Len(hs) + 1})
FromDocument(u) ==
  \/ u.username # "" /\ \E j \in DOMAIN DocumentHandles : DocumentHandles[j] = u.username
  \/ /\ variant \in {"cli", "pool"}
     /\ u.img # ""
     /\ \E j \in DOMAIN elements.images : elements.images[j] = u.img

\* C14: a search sent with a limit of 0, a negative limit or a limit above 20
\* is answered with an error and no records.
InvalidLimitRejected ==
  (docPc = "done" /\ (maxResults < 1 \/ maxResults > 20))
    => (~response.success /\ Data(response) = <<>>)

\* C15: for every document and every limit >= 1 the records of a search result
\* carry pairwise different handles, and handles of the document come in the
\* order in which they occur first in the document.
NoDuplicateHandlesInOrder ==
  (docPc = "done" /\ LimitUsed >= 1)
    => LET hs == HandlesOf(Data(response)) IN
       \A i, j \in DOMAIN hs :
         i < j => /\ hs[i] # hs[j]
                  /\ (FirstAt(DocumentHandles, hs[i]) <= Len(DocumentHandles)
                        /\ FirstAt(DocumentHandles, hs[j]) <= Len(DocumentHandles))
                      => FirstAt(DocumentHandles, hs[i]) < FirstAt(DocumentHandles, hs[j])

\* C16: for a limit in 1..20 the handles of the result are the first `limit`
\* handles of the document's handles deduplicated by first occurrence.
ResultIsDedupPrefix ==
  (docPc = "done" /\ threwAt = "none" /\ LimitUsed \in 1..20)
    => HandlesOf(Data(response)) = Take(DedupHandles(document), LimitUsed)
DedupExampleReturned ==
  /\ docPc = "done" /\ threwAt = "none"
  /\ document = <<"a", "b", "a", "c", "d">>
  /\ maxResults = 3
  /\ HandlesOf(Data(response)) = <<"a", "b", "c">>

\* C17: every record of a search result comes from a candidate of the document
\* (its handle is a handle of the document, or its image an image of the
\* document); a document without candidates gives an empty result.
NoSynthesizedRecords ==
  docPc = "done" => \A i \in DOMAIN Data(response) : FromDocument(Data(response)[i])

\* C18: when page.goto rejects with a timeout, the anchors the document holds
\* are still extracted and returned.
TimeoutStillExtracts ==
  (docPc = "done" /\ threwAt = "goto" /\ LimitUsed \in 1..20)
    => HandlesOf(Data(response)) = Take(DedupHandles(document), LimitUsed)

\* C19: a search whose navigation, probe or extraction threw is never answered
\* like a search that found nothing (success with an empty list).
BrokenIsDistinguishable ==
  (docPc = "done" /\ threwAt \in {"goto", "check", "evaluate"})
    => ~(response.success /\ Data(response) = <<>>)

\* C20: a profile request that nothing rejected returns null when the document
\* holds none of the acceptance markers and a record when it holds one; either
\* way it has closed its page once and released its slot.
NoMarkersReturnsNull ==
  (docPc = "done" /\ threwAt = "none")
    => /\ response.returned = (IF CheckElementsExist(AcceptanceSelectors)
                                 THEN "record" ELSE "null")
       /\ closeCalls[1] = 1 /\ released[1] = 1 /\ currentConcurrent = 0

\* C21: whichever call of a search request rejects (launch or newPage before
\* the try block, setViewport, goto, the element check, evaluate, page.close),
\* scrapeUsersWrapper resolves with an object whose success field is a boolean;
\* it never rejects.
WrappersNeverReject ==
  docPc = "done" => response.kind = "json" /\ response.success \in BOOLEAN

\* A rejection before the try block reached the wrapper's catch, and one of
\* page.close() was followed by the wrapper's return.
FaultsBecameResponses ==
  /\ docPc = "done"
  /\ response.kind = "json"
  /\ \/ threwAt = "setup" /\ ~response.success
     \/ closeThrew /\ response.success

\* C22: a rejection of page.close() reaches the caller as a failure.
CloseFaultPropagated ==
  docPc = "done" /\ closeThrew => response.kind = "json" /\ ~response.success

\* C23: release() called without an outstanding grant leaves the counter at
\* 0 or above, and never lets more than maxConcurrent callers hold a slot.
StrayReleaseIsHarmless ==
  /\ currentConcurrent >= 0
  /\ Cardinality(Holders) <= maxConcurrent

\* C30: whatever MAX_CONCURRENT_PAGES is set to, the gate is built with a
\* capacity above 0.
CapacityIsPositive == maxConcurrent > 0

\* C29: a request is granted at most one slot, holds at most one at any time,
\* and is never waiting for a slot while it holds one.
OneSlotPerOperation ==
  \A o \in Ops :
    /\ granted[o] <= 1
    /\ granted[o] - released[o] \in {0, 1}
    /\ Cardinality({i \in DOMAIN queue : queue[i] = o}) + granted[o] <= 1

\* A request that waited was resumed with one slot and gave it back.
WaiterHeldOneSlot ==
  \E o \in Ops :
    /\ \E i \in DOMAIN grantSeq : grantSeq[i] = o
    /\ granted[o] = 1
    /\ released[o] = 1

\* C24: when the process has exited on a signal, close() has been called on
\* every engine that was launched.
SignalExitClosesEngines ==
  shutdownPc = "exited" => LaunchedEngines \subseteq closedEngines

HandlesNonEmpty ==
  docPc = "done" => \A i \in DOMAIN Data(response) : Data(response)[i].username # ""

\* C27: the name of every record is non-empty, and it is the username unless
\* it is the text of a name element of the document.
DisplayNameResolved ==
  docPc = "done" =>
    \A i \in DOMAIN Data(response) :
      LET u == Data(response)[i] IN
        /\ u.name # ""
        /\ \/ u.name = u.username
           \/ \E j \in DOMAIN elements.names : elements.names[j] = u.name

ReleaseHandsOffToHead ==
  [][Len(queue) > 0 =>
       /\ (\E o \in Ops : released'[o] > released[o]) =>
            /\ queue' = Tail(queue)
            /\ currentConcurrent' = currentConcurrent
            /\ pc'[Head(queue)] = "acquired"
            /\ \A w \in Ops :
                 granted'[w] = granted[w] + (IF w = Head(queue) THEN 1 ELSE 0)
       /\ \A w \in Ops : granted'[w] > granted[w] => w = Head(queue)]_vars

\* A release resumed the first of two waiters; the second is still queued
\* and the gate is still full.
HeadResumedSecondWaits ==
  /\ Len(grantSeq) = 1
  /\ Len(enqSeq) = 2
  /\ queue = <<enqSeq[2]>>
  /\ granted[enqSeq[1]] = 1
  /\ currentConcurrent = maxConcurrent

ProbeIsDisjunction ==
  /\ (docPc = "probe" /\ Settled(probe.waits)) => ENABLED ProbeReturned
  /\ probe.reported # "none" =>
       /\ Settled(probe.waits)
       /\ probe.reported \in {"met", "unmet"}
       /\ probe.reported = "met" <=> \E sel \in DOMAIN probe.waits :
                                       probe.waits[sel] = "element"
       /\ threwAt # "probe"

\* One of five waits resolved with an element, the others timed out or
\* rejected, and the probe reported "met".
OneOfFiveResolved ==
  /\ probe.reported = "met"
  /\ Cardinality(DOMAIN probe.waits) = 5
  /\ Cardinality({sel \in DOMAIN probe.waits : probe.waits[sel] = "element"}) = 1
  /\ \E sel \in DOMAIN probe.waits : probe.waits[sel] = "rejected"

\* C35: a search whose probe reported "unmet", whose document holds user
\* anchors when it is read and in which no call rejected, is answered with
\* the records extracted from the document.
UnmetProbeStillExtracts ==
  (/\ docPc = "done"
   /\ probe.reported = "unmet"
   /\ threwAt = "none"
   /\ Len(document) > 0)
    => /\ response.kind = "json"
       /\ response.success
       /\ Data(response) = ExtractUsers(document, ParseMaxResults(maxResults))

\* Records were returned although every wait of the probe timed out.
RecordsAfterUnmetProbe ==
  /\ docPc = "done"
  /\ probe.reported = "unmet"
  /\ \A sel \in DOMAIN probe.waits : probe.waits[sel] = "timeout"
  /\ Len(Data(response)) >= 2

\* The strategies of the name facet in their order, with the text each one
\* finds: the nickname marker inside the anchor, the nickname marker in the
\* container, the fallbacks (in the container; inside the anchor in the
\* first copy, which has no container strategy).
Strategies(el) ==
  IF variant = "first"
    THEN <<el.nickname>> \o el.fallbacks
    ELSE <<el.nickname>> \o
         (IF el.hasParent THEN <<el.parentNickname>> \o el.fallbacks ELSE <<>>)
UsableAt(el, i) ==
  IF i = 1 \/ (variant = "second" /\ i = 2)
    THEN Strategies(el)[i] \notin {"absent", "", el.username}
    ELSE Strategies(el)[i] \notin {"absent", "", el.username, "Break reminders"}

\* C36: the name of a record is the text of the first strategy, in their
\* order, whose text is usable, and the username when none is; the image is
\* the src the anchor's img carries whatever the name strategies found.
NameIsFirstUsableStrategy ==
  docPc = "done" /\ variant \in {"first", "second"} /\ "nickname" \in DOMAIN elements =>
    LET u == Data(response)[1]
        st == Strategies(elements)
        usable == {i \in DOMAIN st : UsableAt(elements, i)}
    IN /\ u.name = IF usable = {} THEN u.username
                   ELSE st[CHOOSE i \in usable : \A j \in usable : i <= j]
       /\ u.img = IF elements.img = "absent" THEN "" ELSE elements.img

\* C31: a successful search response that carries a count carries the
\* number of its records there, and no more records than the maxResults
\* that was asked for.
CountMatchesUsers ==
  (docPc = "done" /\ "count" \in DOMAIN response /\ response.success) =>
    /\ response.count = Len(response.data)
    /\ Len(response.data) <= maxResults

\* The awaits of a request in the order of the method, and the await that
\* may follow each one while the request has not left its try block.
StepOrder ==
  <<"idle", "queued", "acquired", "launching", "ensured", "newPage", "setViewport",
    "setUserAgent", "goto", "probe", "check", "evaluate", "closing", "done">>
Rank(step) == CHOOSE i \in DOMAIN StepOrder : StepOrder[i] = step
FollowedBy(step) ==
  CASE step = "idle" -> {"queued", "acquired"}
    [] step = "acquired" -> {"launching", "ensured"}
    [] step \in {"closing", "done"} -> {}
    [] OTHER -> {StepOrder[Rank(step) + 1]}

\* C33: a request moves through slot, engine, page, navigation, probe, check,
\* extraction, page close and release in this order without skipping one
\* unless it fails; it succeeds only out of page.evaluate; its page is
\* opened only while it holds its slot and has its engine; and its slot is
\* released only after page.close() has been called and has settled.
StepsInOrder ==
  [][\A o \in Ops :
       /\ pc'[o] # pc[o] =>
            /\ Rank(pc'[o]) > Rank(pc[o])
            /\ pc'[o] \notin {"closing", "done"} => pc'[o] \in FollowedBy(pc[o])
       /\ (outcome'[o] = "success" /\ outcome[o] # "success") =>
            pc[o] = "evaluate" /\ pc'[o] = "closing"
       /\ (page'[o] # Null /\ page[o] = Null) =>
            /\ granted[o] = 1 /\ released[o] = 0
            /\ browser[o] # Null
            /\ pc[o] = "newPage"
       /\ released'[o] > released[o] =>
            /\ pc[o] = "closing" /\ pc'[o] = "done"
            /\ closeCalls[o] = 1]_vars

\* A request that had to wait for its slot went through every step and
\* returned records.
QueuedRequestSucceeded ==
  \E o \in Ops :
    /\ \E i \in DOMAIN grantSeq : grantSeq[i] = o
    /\ pc[o] = "done"
    /\ outcome[o] = "success"
    /\ released[o] = 1
    /\ closeCalls[o] = 1

\* C38: every engine that was launched and on which close() was not called
\* is the one globalBrowser names.
NoOrphanedEngine ==
  \A e \in LaunchedEngines \ closedEngines : e = globalBrowser

\* C39: a request that holds the engine closeGlobalBrowser() has called
\* close() on, and so was in flight while it ran, ends with every slot it
\* was granted released.
SlotsReleasedAcrossShutdown ==
  [][\A o \in Ops :
       (/\ browser[o] \in closedEngines
        /\ pc[o] \notin {"idle", "done"}
        /\ pc'[o] = "done")
         => released'[o] = granted'[o]]_vars

====
